---- MODULE Spec2Model ----
(***************************************************************************)
(* A model of the tool-call dispatcher of dumbphonehelp (src/src/main.rs,  *)
(* src/src/models.rs): the JSON decoding of a request (serde, untagged     *)
(* FunctionArgs), the dispatch loop of handle_tool_call, the three store   *)
(* functions behind the shared Mutex<SqliteConnection>, and the outbound   *)
(* call of ask_perplexity.                                                 *)
(***************************************************************************)
EXTENDS Integers, Sequences, FiniteSets, TLC

\* ---------------------------------------------------------------- bounds

\* Longest toolCalls list of a request.
MaxCalls == 2

\* ----------------------------------------------------------- value domains

\* The requests the server handles (one tokio task each).
Requests == {"r1", "r2"}

\* The request handled alone in SpecSeq.
SeqRequest == "r1"

\* Values Uuid::new_v4().to_string() yields, in the order they are drawn.  A
\* v4 UUID is 122 random bits: the model takes two draws never to collide.
UuidPool == <<"u1", "u2", "u3", "u4", "u5", "u6", "u7", "u8">>

\* The function names the match of handle_tool_call compares with.
GetUserReminders == "GetUserReminders"
StoreUserReminder == "StoreUserReminder"
DeleteAllReminders == "DeleteAllReminders"
AskPerplexity == "AskPerplexity"

RoutedNames == {GetUserReminders, StoreUserReminder, DeleteAllReminders, AskPerplexity}

FunctionNames == RoutedNames \cup {"SetAlarm"}

UnknownFunctionCall == "Unknown function call"

\* Bodies the external service answers with.
Answers == {"answer"}

\* ------------------------------------------------------------ JSON values

JAbsent == [t |-> "absent"]
JNull == [t |-> "null"]
JNum == [t |-> "num"]
JStr(s) == [t |-> "str", s |-> s]
\* An object, by its "message" and "remind_at" members (JAbsent: no such
\* member); members of other names are ignored by every shape.
JObj(m, ra) == [t |-> "obj", message |-> m, remind_at |-> ra]
JArr(a) == [t |-> "arr", a |-> a]

\* String::deserialize: a JSON string only.
IsString(v) == v.t = "str"

\* ------------------------------------------------- FunctionArgs (untagged)

ArgsCreate(m, ra) == [shape |-> "Create", message |-> m, remind_at |-> ra]
ArgsMessage(m) == [shape |-> "Message", message |-> m]
ArgsEmpty == [shape |-> "Empty"]
ArgsError == [shape |-> "Error"]

\* CreateReminderArgs::deserialize: a map with string members message and
\* remind_at, or (serde's derived visit_seq) a sequence of exactly two strings.
DeCreateReminderArgs(v) ==
    CASE v.t = "obj" ->
            IF IsString(v.message) /\ IsString(v.remind_at)
            THEN ArgsCreate(v.message.s, v.remind_at.s)
            ELSE ArgsError
      [] v.t = "arr" ->
            IF Len(v.a) = 2 /\ IsString(v.a[1]) /\ IsString(v.a[2])
            THEN ArgsCreate(v.a[1].s, v.a[2].s)
            ELSE ArgsError
      [] OTHER -> ArgsError

\* PerplexityMessageArgs::deserialize: a map with a string member message (other
\* members ignored), or a sequence of exactly one string.
DePerplexityMessageArgs(v) ==
    CASE v.t = "obj" ->
            IF IsString(v.message) THEN ArgsMessage(v.message.s) ELSE ArgsError
      [] v.t = "arr" ->
            IF Len(v.a) = 1 /\ IsString(v.a[1])
            THEN ArgsMessage(v.a[1].s)
            ELSE ArgsError
      [] OTHER -> ArgsError

\* EmptyArgs::deserialize: any map, or the empty sequence.
DeEmptyArgs(v) ==
    CASE v.t = "obj" -> ArgsEmpty
      [] v.t = "arr" -> IF Len(v.a) = 0 THEN ArgsEmpty ELSE ArgsError
      [] OTHER -> ArgsError

\* DeFunctionArgs, with the Message variant declared before Create.
DeFunctionArgs_MessageFirst(v) ==
    IF DePerplexityMessageArgs(v) # ArgsError THEN DePerplexityMessageArgs(v)
    ELSE IF DeCreateReminderArgs(v) # ArgsError THEN DeCreateReminderArgs(v)
    ELSE DeEmptyArgs(v)

\* #[serde(untagged)] enum FunctionArgs: the variants are tried in declaration
\* order, and the first that deserializes is the value.
DeFunctionArgs(v) ==
    IF DeCreateReminderArgs(v) # ArgsError THEN DeCreateReminderArgs(v)
    ELSE IF DePerplexityMessageArgs(v) # ArgsError THEN DePerplexityMessageArgs(v)
    ELSE DeEmptyArgs(v)

\* A ToolCall of the request body, its arguments still JSON.
RawCall(id, name, arguments) == [id |-> id, name |-> name, arguments |-> arguments]

\* ToolCall::deserialize.
DeToolCall(c) == [id |-> c.id, name |-> c.name, arguments |-> DeFunctionArgs(c.arguments)]

\* Json<ToolCallRequest>: the extractor decodes the whole body before the
\* handler runs, and rejects the request when any part fails to decode.
Decodable(body) == \A k \in 1..Len(body) : DeFunctionArgs(body[k].arguments) # ArgsError

DeToolCallRequest(body) == [k \in 1..Len(body) |-> DeToolCall(body[k])]

\* ------------------------------------------------------------ Result<T, E>

Ok(v) == [ok |-> TRUE, val |-> v]
Err(e) == [ok |-> FALSE, err |-> e]

\* What the SQLite connection does with one statement: it executes it
\* (NoFault) or fails with a diesel::result::Error.
NoFault == [kind |-> "none"]
DieselErrors == {[kind |-> "DatabaseError", info |-> "database is locked"]}

\* What the HTTP client does with the outbound request: reqwest::Error.
ReqwestErrors == {[kind |-> "reqwest", info |-> "error sending request"]}

\* e.to_string(): the error's Display text.
ErrorToString(e) == e.info

INTERNAL_SERVER_ERROR == 500
UNPROCESSABLE_ENTITY == 422

\* ------------------------------------------------------------- models.rs

\* Reminder::new, but with the same id for every reminder.
Reminder_new_FixedId(message, remind_at, uuid) ==
    [id |-> UuidPool[1], message |-> message, remind_at |-> remind_at]

\* Reminder::new, given the value Uuid::new_v4().to_string() draws.
Reminder_new(message, remind_at, uuid) ==
    [id |-> uuid, message |-> message, remind_at |-> remind_at]

Single(reminder) == [kind |-> "Single", reminder |-> reminder]
Multiple(reminders) == [kind |-> "Multiple", reminders |-> reminders]
Message(text) == [kind |-> "Message", text |-> text]

ToolCallResult(toolCallId, result) == [toolCallId |-> toolCallId, result |-> result]

\* ------------------------------------------------------- store functions
\* Each takes the table behind the connection (the rows, in rowid order) and
\* what the connection does with the statement, and gives the table afterwards
\* (conn) and the function's return value (ret).

\* insert_execute, but the new row takes the place of the table's last row.
insert_execute_Overwrite(conn, row, fault) ==
    IF fault # NoFault THEN [conn |-> conn, ret |-> Err(fault)]
    ELSE IF Len(conn) = 0 THEN [conn |-> <<row>>, ret |-> Ok(1)]
    ELSE [conn |-> [conn EXCEPT ![Len(conn)] = row], ret |-> Ok(1)]

\* diesel::insert_into(reminders).values(&row).execute(conn)
insert_execute(conn, row, fault) ==
    IF fault = NoFault
    THEN [conn |-> Append(conn, row), ret |-> Ok(1)]
    ELSE [conn |-> conn, ret |-> Err(fault)]

\* create_reminder: the insert's result is logged and dropped, and the new
\* reminder is returned in either case.
create_reminder(conn, args, uuid, fault) ==
    LET new_reminder == Reminder_new(args.message, args.remind_at, uuid)
        result == insert_execute(conn, new_reminder, fault)
    IN  [conn |-> result.conn, ret |-> Ok(new_reminder), result |-> result.ret]

\* list_reminders, but a failed query rolls the table back to empty.
list_reminders_Rollback(conn, fault) ==
    IF fault = NoFault THEN [conn |-> conn, ret |-> Ok(conn)]
    ELSE [conn |-> << >>, ret |-> Err(fault)]

\* list_reminders: reminders.load::<Reminder>(conn)
list_reminders(conn, fault) ==
    [conn |-> conn, ret |-> IF fault = NoFault THEN Ok(conn) ELSE Err(fault)]

\* delete_all_reminders, but deleting no row is an error.
delete_all_reminders_NotFound(conn, fault) ==
    IF fault # NoFault THEN [conn |-> conn, ret |-> Err(fault)]
    ELSE IF Len(conn) = 0
    THEN [conn |-> conn, ret |-> Err([kind |-> "NotFound", info |-> "Record not found"])]
    ELSE [conn |-> << >>, ret |-> Ok(Len(conn))]

\* delete_all_reminders: diesel::delete(reminders).execute(conn)
delete_all_reminders(conn, fault) ==
    IF fault = NoFault
    THEN [conn |-> << >>, ret |-> Ok(Len(conn))]
    ELSE [conn |-> conn, ret |-> Err(fault)]

\* ------------------------------------------------------------------ state

VARIABLES
    store,      \* the reminders table: a sequence of Reminder rows
    mutex,      \* the Mutex around the connection: its holder, or Unlocked
    req,        \* per request: the handler task's state
    nextUuid,   \* how many UUIDs have been drawn
    outbound,   \* how many requests were sent to the external service
    apiKey      \* whether PERPLEXITY_API_KEY is set in the environment

vars == <<store, mutex, req, nextUuid, outbound, apiKey>>

Unlocked == "unlocked"

NoResponse == [status |-> 0]
\* Ok(Json(ResponseWrapper { results }))
OkResponse(results) == [status |-> 200, results |-> results]
\* Err((StatusCode, String))
ErrResponse(status, text) == [status |-> status, text |-> text]
\* The Json extractor's rejection: the handler is never called.
JsonRejection == [status |-> UNPROCESSABLE_ENTITY]

\* A request nobody has sent yet.
Idle == [pc |-> "idle", body |-> << >>, i |-> 0, results |-> << >>,
         response |-> NoResponse, failed |-> NoFault]

\* payload.message.tool_calls of request r.
tool_calls(r) == DeToolCallRequest(req[r].body)

\* The tool_call the loop of request r is at.
tool_call(r) == tool_calls(r)[req[r].i]

Init ==
    /\ store = << >>
    /\ mutex = Unlocked
    /\ req = [r \in Requests |-> Idle]
    /\ nextUuid = 0
    /\ outbound = 0
    /\ apiKey \in BOOLEAN

\* ----------------------------------------------------------------- inputs

EmptyObject == JObj(JAbsent, JAbsent)

\* One call per arm of the match, and one nothing decodes.
ListCall(id) == RawCall(id, GetUserReminders, EmptyObject)
CreateCall(id, m, ra) == RawCall(id, StoreUserReminder, JObj(JStr(m), JStr(ra)))
DeleteCall(id) == RawCall(id, DeleteAllReminders, EmptyObject)
AskCall(id, m) == RawCall(id, AskPerplexity, JObj(JStr(m), JAbsent))
OtherCall(id) == RawCall(id, "SetAlarm", EmptyObject)
UndecodableCall(id) == RawCall(id, GetUserReminders, JNull)

\* The sequences over S of at most MaxCalls elements.
BatchesOver(S) == UNION {[1..n -> S] : n \in 0..MaxCalls}

\* The calls requests handled concurrently are made of.
ConcCalls ==
    {ListCall("a"), CreateCall("a", "m1", "t1"), DeleteCall("a"), AskCall("a", "m1")}

ConcBatches ==
    BatchesOver(ConcCalls)
    \cup {<<OtherCall("b")>>, <<OtherCall("b"), CreateCall("a", "m1", "t1")>>,
          <<UndecodableCall("b")>>}

\* The calls of a request handled alone: every arm under either id ...
ToolCallIds == {"a", "b"}

IdCalls ==
    UNION {{ListCall(id), CreateCall(id, "m1", "t1"), DeleteCall(id), AskCall(id, "m1"),
            OtherCall(id)} : id \in ToolCallIds}

\* ... and, in a request of one call, every function name with every payload.
MemberValues(strings) == {JAbsent, JNum} \cup {JStr(s) : s \in strings}

RichArguments ==
    {JObj(m, ra) : m \in MemberValues({"m1", "m2"}), ra \in MemberValues({"t1"})}
    \cup {JNull, JNum, JStr("m1")}
    \cup {JArr(a) : a \in {<< >>, <<JStr("m1")>>, <<JStr("m1"), JStr("t1")>>, <<JNum>>,
                           <<JStr("m1"), JNum>>, <<JStr("m1"), JStr("t1"), JStr("m2")>>}}

RichCalls == {RawCall("a", name, arguments) : name \in FunctionNames, arguments \in RichArguments}

SeqBatches ==
    BatchesOver(IdCalls) \cup {<<c>> : c \in RichCalls}
    \cup {<<ListCall("a"), UndecodableCall("b")>>, <<UndecodableCall("a"), CreateCall("b", "m1", "t1")>>}

\* ------------------------------------------------------------ the handler

\* Arm, but the AskPerplexity arm takes any arguments that hold a message.
Arm_AskAnyMessage(name, arguments) ==
    CASE arguments.shape = "Empty" /\ name = GetUserReminders -> "list"
      [] arguments.shape = "Create" /\ name = StoreUserReminder -> "create"
      [] arguments.shape = "Empty" /\ name = DeleteAllReminders -> "delete"
      [] arguments.shape \in {"Message", "Create"} /\ name = AskPerplexity -> "ask"
      [] OTHER -> "unknown"

\* The arm the match of handle_tool_call takes on (name, arguments).
Arm(name, arguments) ==
    CASE arguments.shape = "Empty" /\ name = GetUserReminders -> "list"
      [] arguments.shape = "Create" /\ name = StoreUserReminder -> "create"
      [] arguments.shape = "Empty" /\ name = DeleteAllReminders -> "delete"
      [] arguments.shape = "Message" /\ name = AskPerplexity -> "ask"
      [] OTHER -> "unknown"

\* Request r is at the top of the for loop with a tool call left.
AtCall(r) == req[r].pc = "loop" /\ req[r].i <= Len(req[r].body)

CurrentArm(r) == Arm(tool_call(r).name, tool_call(r).arguments)

\* Pushed, but every result carries the id of the batch's first call.
Pushed_FirstId(r, result) ==
    [req[r] EXCEPT !.pc = "loop",
                   !.results = Append(@, [toolCallId |-> tool_calls(r)[1].id, result |-> result]),
                   !.i = @ + 1]

\* results.push(ToolCallResult { toolCallId: tool_call.id.clone(), result }),
\* and on to the next tool call.
Pushed(r, result) ==
    [req[r] EXCEPT !.pc = "loop",
                   !.results = Append(@, ToolCallResult(tool_call(r).id, result)),
                   !.i = @ + 1]

\* .map_err(|e| (StatusCode::INTERNAL_SERVER_ERROR, e.to_string()))? on Err(e):
\* the handler returns, and its locals (results, the guard) are dropped.
Failed(r, e) ==
    [req[r] EXCEPT !.pc = "done",
                   !.results = << >>,
                   !.response = ErrResponse(INTERNAL_SERVER_ERROR, ErrorToString(e)),
                   !.failed = e]

\* A request arrives and its body decodes: the handler starts.
Receive(r, batches) ==
    /\ req[r].pc = "idle"
    /\ \E body \in batches :
          /\ Decodable(body)
          /\ req' = [req EXCEPT ![r] = [Idle EXCEPT !.pc = "loop", !.body = body, !.i = 1]]
    /\ UNCHANGED <<store, mutex, nextUuid, outbound, apiKey>>

\* A request arrives and its body does not decode: the extractor answers.
Reject(r, batches) ==
    /\ req[r].pc = "idle"
    /\ \E body \in batches :
          /\ ~Decodable(body)
          /\ req' = [req EXCEPT ![r] = [Idle EXCEPT !.pc = "done", !.body = body,
                                                     !.response = JsonRejection]]
    /\ UNCHANGED <<store, mutex, nextUuid, outbound, apiKey>>

\* LockConnection, but the task does not wait for the mutex.
LockConnection_NoWait(r) ==
    /\ AtCall(r)
    /\ CurrentArm(r) \in {"list", "create", "delete"}
    /\ mutex' = r
    /\ req' = [req EXCEPT ![r].pc = CurrentArm(r)]
    /\ UNCHANGED <<store, nextUuid, outbound, apiKey>>

\* let mut conn = pool.lock().unwrap(), in the arm the call takes: the task
\* waits until the mutex is free.
LockConnection(r) ==
    /\ AtCall(r)
    /\ CurrentArm(r) \in {"list", "create", "delete"}
    /\ mutex = Unlocked
    /\ mutex' = r
    /\ req' = [req EXCEPT ![r].pc = CurrentArm(r)]
    /\ UNCHANGED <<store, nextUuid, outbound, apiKey>>

\* The GetUserReminders arm, holding the lock; the guard drops at its end.
CallListReminders(r) ==
    /\ req[r].pc = "list"
    /\ \E fault \in {NoFault} \cup DieselErrors :
          LET out == list_reminders(store, fault)
          IN  /\ store' = out.conn
              /\ req' = [req EXCEPT ![r] = IF out.ret.ok
                                           THEN Pushed(r, Multiple(out.ret.val))
                                           ELSE Failed(r, out.ret.err)]
    /\ mutex' = Unlocked
    /\ UNCHANGED <<nextUuid, outbound, apiKey>>

\* The StoreUserReminder arm, holding the lock.
CallCreateReminder(r) ==
    /\ req[r].pc = "create"
    /\ nextUuid < Len(UuidPool)
    /\ \E fault \in {NoFault} \cup DieselErrors :
          LET out == create_reminder(store, tool_call(r).arguments, UuidPool[nextUuid + 1], fault)
          IN  /\ store' = out.conn
              /\ req' = [req EXCEPT ![r] =
                            IF out.ret.ok
                            THEN [Pushed(r, Single(out.ret.val)) EXCEPT
                                     !.failed = IF out.result.ok THEN @ ELSE out.result.err]
                            ELSE Failed(r, out.ret.err)]
    /\ nextUuid' = nextUuid + 1
    /\ mutex' = Unlocked
    /\ UNCHANGED <<outbound, apiKey>>

\* CallDeleteAllReminders, but the early return on an error keeps the mutex locked.
CallDeleteAllReminders_KeepLock(r) ==
    /\ req[r].pc = "delete"
    /\ \E fault \in {NoFault} \cup DieselErrors :
          LET out == delete_all_reminders(store, fault)
          IN  /\ store' = out.conn
              /\ req' = [req EXCEPT ![r] = IF out.ret.ok
                                           THEN Pushed(r, Multiple(<< >>))
                                           ELSE Failed(r, out.ret.err)]
              /\ mutex' = IF out.ret.ok THEN Unlocked ELSE mutex
    /\ UNCHANGED <<nextUuid, outbound, apiKey>>

\* The DeleteAllReminders arm, holding the lock: the count is dropped.
CallDeleteAllReminders(r) ==
    /\ req[r].pc = "delete"
    /\ \E fault \in {NoFault} \cup DieselErrors :
          LET out == delete_all_reminders(store, fault)
          IN  /\ store' = out.conn
              /\ req' = [req EXCEPT ![r] = IF out.ret.ok
                                           THEN Pushed(r, Multiple(<< >>))
                                           ELSE Failed(r, out.ret.err)]
    /\ mutex' = Unlocked
    /\ UNCHANGED <<nextUuid, outbound, apiKey>>

\* AskPerplexityPanic, but a missing key skips the forwarding with an empty answer.
AskPerplexityPanic_Skip(r) ==
    /\ AtCall(r)
    /\ CurrentArm(r) = "ask"
    /\ ~apiKey
    /\ req' = [req EXCEPT ![r] = Pushed(r, Message(""))]
    /\ UNCHANGED <<store, mutex, nextUuid, outbound, apiKey>>

\* ask_perplexity without PERPLEXITY_API_KEY: expect() panics in the task.
AskPerplexityPanic(r) ==
    /\ AtCall(r)
    /\ CurrentArm(r) = "ask"
    /\ ~apiKey
    /\ req' = [req EXCEPT ![r].pc = "panicked", ![r].results = << >>]
    /\ UNCHANGED <<store, mutex, nextUuid, outbound, apiKey>>

\* AskPerplexitySend, but the task takes the connection's mutex before it
\* awaits the answer.
AskPerplexitySend_Locked(r) ==
    /\ AtCall(r)
    /\ CurrentArm(r) = "ask"
    /\ apiKey
    /\ mutex = Unlocked
    /\ mutex' = r
    /\ outbound' = outbound + 1
    /\ req' = [req EXCEPT ![r].pc = "ask"]
    /\ UNCHANGED <<store, nextUuid, apiKey>>

\* ask_perplexity sends the request and the task awaits the answer.
AskPerplexitySend(r) ==
    /\ AtCall(r)
    /\ CurrentArm(r) = "ask"
    /\ apiKey
    /\ outbound' = outbound + 1
    /\ req' = [req EXCEPT ![r].pc = "ask"]
    /\ UNCHANGED <<store, mutex, nextUuid, apiKey>>

\* The answer's body arrives, or the client fails.
AskPerplexityReturn(r) ==
    /\ req[r].pc = "ask"
    /\ \/ \E text \in Answers : req' = [req EXCEPT ![r] = Pushed(r, Message(text))]
       \/ \E e \in ReqwestErrors : req' = [req EXCEPT ![r] = Failed(r, e)]
    /\ UNCHANGED <<store, mutex, nextUuid, outbound, apiKey>>

\* UnknownCall, but the unknown name fails the request.
UnknownCall_Abort(r) ==
    /\ AtCall(r)
    /\ CurrentArm(r) = "unknown"
    /\ req' = [req EXCEPT ![r].pc = "done", ![r].results = << >>,
                          ![r].response = ErrResponse(INTERNAL_SERVER_ERROR, UnknownFunctionCall)]
    /\ UNCHANGED <<store, mutex, nextUuid, outbound, apiKey>>

\* The catch-all arm.
UnknownCall(r) ==
    /\ AtCall(r)
    /\ CurrentArm(r) = "unknown"
    /\ req' = [req EXCEPT ![r] = Pushed(r, Message(UnknownFunctionCall))]
    /\ UNCHANGED <<store, mutex, nextUuid, outbound, apiKey>>

\* Ok(Json(ResponseWrapper { results })) after the loop.
Return(r) ==
    /\ req[r].pc = "loop"
    /\ req[r].i > Len(req[r].body)
    /\ req' = [req EXCEPT ![r].pc = "done", ![r].response = OkResponse(req[r].results)]
    /\ UNCHANGED <<store, mutex, nextUuid, outbound, apiKey>>

\* One step of the handler of request r.
Handle(r) ==
    \/ LockConnection(r)
    \/ CallListReminders(r)
    \/ CallCreateReminder(r)
    \/ CallDeleteAllReminders(r)
    \/ AskPerplexityPanic(r)
    \/ AskPerplexitySend(r)
    \/ AskPerplexityReturn(r)
    \/ UnknownCall(r)
    \/ Return(r)

\* Requests handled concurrently.
Next ==
    \E r \in Requests : Receive(r, ConcBatches) \/ Reject(r, ConcBatches) \/ Handle(r)

Spec == Init /\ [][Next]_vars

\* One request handled alone.
NextSeq ==
    \/ Receive(SeqRequest, SeqBatches)
    \/ Reject(SeqRequest, SeqBatches)
    \/ Handle(SeqRequest)

SpecSeq == Init /\ [][NextSeq]_vars

\* ----------------------------------------------------------------- claims

Range(s) == {s[k] : k \in 1..Len(s)}
Last(s) == s[Len(s)]

StoreArms == {"list", "create", "delete"}

\* Request r has returned Ok(Json(ResponseWrapper { results })).
Answered(r) == req[r].pc = "done" /\ req[r].response.status = 200

\* C1: every response envelope has one result per tool call of the request, in
\* the order of the calls, each under the id of its call.
C1_ResultsCorrelate ==
    \A r \in Requests :
        Answered(r) =>
            /\ Len(req[r].response.results) = Len(req[r].body)
            /\ \A k \in 1..Len(req[r].body) :
                  req[r].response.results[k].toolCallId = req[r].body[k].id

\* An envelope of two results under different ids, the first for an
\* unrecognized call and the second for a recognized one.
C1_Witness ==
    \E r \in Requests :
        /\ Answered(r)
        /\ Len(req[r].body) = 2
        /\ req[r].body[1].id # req[r].body[2].id
        /\ req[r].body[1].name \notin RoutedNames
        /\ req[r].body[2].name = StoreUserReminder
        /\ req[r].response.results[2].result.kind = "Single"

\* C2: when create_reminder returns a Reminder to the handler, that row is in
\* the table; a failed insert is returned as an error.
C2_CreateNeverDropsWrite ==
    [][\A r \in Requests :
          (req[r].pc = "create" /\ req'[r].pc = "loop") =>
              Last(req'[r].results).result.reminder \in Range(store')]_vars

\* C3: a request during which a store function or the forwarder failed has
\* returned, in the step of the failure, the internal error with the failure's
\* text, and no envelope.
C3_FailureAbortsRequest ==
    \A r \in Requests :
        req[r].failed # NoFault =>
            /\ req[r].pc = "done"
            /\ req[r].response = ErrResponse(INTERNAL_SERVER_ERROR, ErrorToString(req[r].failed))

\* C4: a call under a name that is not routed gets the fixed message under its
\* own id in one step that leaves the table, the mutex and the outbound calls
\* alone and moves the loop to the next call; that step never has to wait.
C4_UnknownStep(r) ==
    (AtCall(r) /\ tool_call(r).name \notin RoutedNames /\ req'[r] # req[r]) =>
        /\ req'[r] = [req[r] EXCEPT
                         !.results = Append(@, ToolCallResult(req[r].body[req[r].i].id,
                                                              Message(UnknownFunctionCall))),
                         !.i = @ + 1]
        /\ store' = store
        /\ mutex' = mutex
        /\ outbound' = outbound
        /\ nextUuid' = nextUuid

C4_UnknownName ==
    /\ [](\A r \in Requests :
             (AtCall(r) /\ tool_call(r).name \notin RoutedNames) => ENABLED UnknownCall(r))
    /\ [][\A r \in Requests : C4_UnknownStep(r)]_vars

\* A call under an unknown name was answered with the fixed message, and the
\* call after it was dispatched and stored a reminder.
C4_Witness ==
    \E r \in Requests :
        /\ Len(req[r].results) = 2
        /\ req[r].body[1].name \notin RoutedNames
        /\ req[r].results[1] = ToolCallResult(req[r].body[1].id, Message(UnknownFunctionCall))
        /\ req[r].results[2].result.kind = "Single"
        /\ Len(store) = 1

\* The (functionName, shape) pair of the call the loop of request r is at.
CurrentPair(r) == <<tool_call(r).name, tool_call(r).arguments.shape>>

\* The step request r takes from the top of the loop on a call of no routed
\* (name, shape) pair: the fixed message, and nothing else changes.
UnknownResultStep(r) ==
    /\ req'[r] = [req[r] EXCEPT
                     !.results = Append(@, ToolCallResult(req[r].body[req[r].i].id,
                                                          Message(UnknownFunctionCall))),
                     !.i = @ + 1]
    /\ store' = store
    /\ mutex' = mutex
    /\ outbound' = outbound
    /\ nextUuid' = nextUuid

\* C5: a request is inside the list, create, delete-all or forwarding arm only
\* on the arm's own (name, shape) pair, each routed pair enters its own arm, and
\* a call of any other pair gets the fixed message with no side effect.
C5_ArmOnlyOnItsPair ==
    \A r \in Requests :
        /\ req[r].pc = "list" => CurrentPair(r) = <<GetUserReminders, "Empty">>
        /\ req[r].pc = "create" => CurrentPair(r) = <<StoreUserReminder, "Create">>
        /\ req[r].pc = "delete" => CurrentPair(r) = <<DeleteAllReminders, "Empty">>
        /\ req[r].pc = "ask" => CurrentPair(r) = <<AskPerplexity, "Message">>

C5_DispatchStep(r) ==
    (AtCall(r) /\ req'[r] # req[r]) =>
        CASE CurrentPair(r) = <<GetUserReminders, "Empty">> ->
                req'[r] = [req[r] EXCEPT !.pc = "list"] /\ mutex' = r
          [] CurrentPair(r) = <<StoreUserReminder, "Create">> ->
                req'[r] = [req[r] EXCEPT !.pc = "create"] /\ mutex' = r
          [] CurrentPair(r) = <<DeleteAllReminders, "Empty">> ->
                req'[r] = [req[r] EXCEPT !.pc = "delete"] /\ mutex' = r
          [] CurrentPair(r) = <<AskPerplexity, "Message">> ->
                \/ req'[r] = [req[r] EXCEPT !.pc = "ask"] /\ outbound' = outbound + 1
                \/ req'[r].pc = "panicked" /\ outbound' = outbound
          [] OTHER -> UnknownResultStep(r)

C5_NameAndShapeRoute ==
    /\ []C5_ArmOnlyOnItsPair
    /\ [][\A r \in Requests : C5_DispatchStep(r)]_vars

\* AskPerplexity with a payload holding message and remind_at was answered
\* with the fixed message, and nothing was sent or stored.
C5_Witness ==
    \E r \in Requests :
        /\ Answered(r)
        /\ Len(req[r].body) = 1
        /\ <<tool_calls(r)[1].name, tool_calls(r)[1].arguments.shape>> = <<AskPerplexity, "Create">>
        /\ req[r].response.results[1].result = Message(UnknownFunctionCall)
        /\ outbound = 0
        /\ store = << >>

\* Call k of request r has a result.
HasResult(r, k) == k <= Len(req[r].results)

\* C6: of an object payload, string members message and remind_at decode as
\* Create, a string message without a string remind_at as Message, and anything
\* else as Empty; and the result of a StoreUserReminder call with string message
\* and remind_at is a single Reminder.
C6_ShapePriority ==
    \A r \in Requests : \A k \in 1..Len(req[r].body) :
        LET v == req[r].body[k].arguments
        IN  v.t = "obj" =>
               /\ (IsString(v.message) /\ IsString(v.remind_at)) =>
                     DeFunctionArgs(v) = ArgsCreate(v.message.s, v.remind_at.s)
               /\ (IsString(v.message) /\ ~IsString(v.remind_at)) =>
                     DeFunctionArgs(v) = ArgsMessage(v.message.s)
               /\ ~IsString(v.message) => DeFunctionArgs(v) = ArgsEmpty
               /\ (/\ IsString(v.message) /\ IsString(v.remind_at)
                   /\ req[r].body[k].name = StoreUserReminder
                   /\ HasResult(r, k)) =>
                     req[r].results[k].result.kind = "Single"

\* A StoreUserReminder call with string message and remind_at was answered
\* with the Reminder made of them.
C6_Witness ==
    \E r \in Requests :
        /\ Answered(r)
        /\ Len(req[r].body) = 1
        /\ req[r].body[1].name = StoreUserReminder
        /\ req[r].body[1].arguments = JObj(JStr("m2"), JStr("t1"))
        /\ req[r].response.results[1].result.kind = "Single"
        /\ req[r].response.results[1].result.reminder.message = "m2"

\* C7: a request with a call whose payload decodes as none of the shapes is
\* answered, when no store function and no forwarding fails, with an envelope
\* that holds the fixed message under that call's id and a result for every
\* other call.
C7_UndecodableIsUnknown ==
    \A r \in Requests :
        (/\ req[r].pc = "done"
         /\ req[r].failed = NoFault
         /\ \E k \in 1..Len(req[r].body) : DeFunctionArgs(req[r].body[k].arguments) = ArgsError) =>
            /\ req[r].response.status = 200
            /\ Len(req[r].response.results) = Len(req[r].body)
            /\ \A k \in 1..Len(req[r].body) :
                  DeFunctionArgs(req[r].body[k].arguments) = ArgsError =>
                      req[r].response.results[k] =
                          ToolCallResult(req[r].body[k].id, Message(UnknownFunctionCall))

\* The requests inside a store function.
InStore == {r \in Requests : req[r].pc \in StoreArms}

\* C8: at most one request is inside a store function, the one that holds the
\* mutex; the table changes only in the step in which the holder's store
\* function runs, start to end, and releases the mutex.
C8_OneInStore ==
    /\ Cardinality(InStore) <= 1
    /\ \A r \in Requests : r \in InStore <=> mutex = r

C8_StoreStep ==
    /\ store' # store =>
          /\ mutex \in InStore
          /\ req'[mutex].pc \notin StoreArms
          /\ mutex' = Unlocked
          /\ \A q \in Requests \ {mutex} : req'[q] = req[q]
    /\ \A r \in Requests :
          (req[r].pc \in StoreArms /\ req'[r] # req[r]) =>
              mutex = r /\ mutex' = Unlocked /\ req'[r].pc \notin StoreArms

C8_MutualExclusion == []C8_OneInStore /\ [][C8_StoreStep]_vars

\* A request is inside create_reminder while another is at a call of a store
\* arm, waiting for the mutex.
C8_Witness ==
    \E r, q \in Requests :
        /\ r # q
        /\ req[r].pc = "create"
        /\ mutex = r
        /\ AtCall(q)
        /\ CurrentArm(q) \in StoreArms

\* The ids of the rows of the table.
StoredIds(rows) == {rows[k].id : k \in 1..Len(rows)}

\* C9: a Reminder result holds the message and remind_at of its call and a
\* non-empty id, the id create_reminder gives a reminder is the id of no row of
\* the table, and no two rows of the table share an id.
C9_ResultsVerbatim ==
    \A r \in Requests : \A k \in 1..Len(req[r].results) :
        req[r].results[k].result.kind = "Single" =>
            LET reminder == req[r].results[k].result.reminder
                args == tool_calls(r)[k].arguments
            IN  /\ args.shape = "Create"
                /\ reminder.message = args.message
                /\ reminder.remind_at = args.remind_at
                /\ reminder.id # ""

C9_RowsUnique ==
    \A j, k \in 1..Len(store) : j # k => store[j].id # store[k].id

C9_CreateStep ==
    \A r \in Requests :
        (req[r].pc = "create" /\ req'[r].pc = "loop") =>
            Last(req'[r].results).result.reminder.id \notin StoredIds(store)

C9_CreateUniqueVerbatim ==
    /\ [](C9_ResultsVerbatim /\ C9_RowsUnique)
    /\ [][C9_CreateStep]_vars

\* Two requests each stored a reminder, and both rows are in the table.
C9_Witness ==
    /\ Len(store) = 2
    /\ \A r \in Requests :
          /\ Len(req[r].results) >= 1
          /\ req[r].results[1].result.kind = "Single"
          /\ req[r].results[1].result.reminder \in Range(store)

\* C10: whatever rows the table holds, delete_all_reminders on a connection
\* that executes the statement returns Ok and leaves a table list_reminders
\* reads as empty; the step of a successful delete-all empties the table; and
\* every DeleteAllReminders result is the empty list.
C10_DeleteResults ==
    \A r \in Requests : \A k \in 1..Len(req[r].results) :
        Arm(tool_calls(r)[k].name, tool_calls(r)[k].arguments) = "delete" =>
            req[r].results[k].result = Multiple(<< >>)

C10_DeleteSucceeds ==
    \A r \in Requests :
        req[r].pc = "delete" =>
            LET out == delete_all_reminders(store, NoFault)
            IN  /\ out.ret.ok
                /\ out.conn = << >>
                /\ list_reminders(out.conn, NoFault).ret = Ok(<< >>)

C10_DeleteStep ==
    \A r \in Requests :
        /\ (req[r].pc = "delete" /\ req'[r].pc = "loop") =>
              /\ store' = << >>
              /\ Last(req'[r].results).result = Multiple(<< >>)
        /\ (req[r].pc = "delete" /\ req'[r].pc = "done") => req'[r].failed \in DieselErrors
        /\ (req[r].pc = "list" /\ req'[r].pc = "loop" /\ store = << >>) =>
              Last(req'[r].results).result = Multiple(<< >>)

C10_DeleteAllIdempotent ==
    /\ [](C10_DeleteResults /\ C10_DeleteSucceeds)
    /\ [][C10_DeleteStep]_vars

\* A request deleted all reminders twice, the second time from the empty
\* table, after another request had stored one.
C10_Witness ==
    \E r, q \in Requests :
        /\ r # q
        /\ Len(req[q].results) >= 1
        /\ req[q].results[1].result.kind = "Single"
        /\ Len(req[r].results) = 2
        /\ \A k \in 1..2 :
              /\ tool_calls(r)[k].name = DeleteAllReminders
              /\ req[r].results[k].result = Multiple(<< >>)
        /\ store = << >>

\* C11: list_reminders on a connection that executes the query returns the
\* rows of the table; and when a request of the one call StoreUserReminder has
\* been answered with a Reminder and the only other request is the one call
\* GetUserReminders, run afterwards, its result is the list of that Reminder.
C11_ListStep ==
    \A r \in Requests :
        (req[r].pc = "list" /\ req'[r].pc = "loop") =>
            Last(req'[r].results).result = Multiple(store)

C11_ScenarioStep ==
    \A r, q \in Requests :
        (/\ r # q
         /\ Answered(q)
         /\ Len(req[q].body) = 1
         /\ req[q].response.results[1].result.kind = "Single"
         /\ Len(req[r].body) = 1
         /\ req[r].pc = "list"
         /\ req'[r].pc = "loop") =>
            Last(req'[r].results).result =
                Multiple(<<req[q].response.results[1].result.reminder>>)

C11_ListAfterCreate == [][C11_ListStep /\ C11_ScenarioStep]_vars

\* C12: a step keeps every row of the table as it is, or it is the delete-all
\* of the request that holds the mutex and leaves the table empty.
C12_Step ==
    \/ /\ Len(store') >= Len(store)
       /\ \A k \in 1..Len(store) : store'[k] = store[k]
    \/ /\ mutex \in Requests
       /\ req[mutex].pc = "delete"
       /\ tool_call(mutex).name = DeleteAllReminders
       /\ store' = << >>

C12_RowsPersist == [][C12_Step]_vars

\* A row that one request listed is still in the table, unchanged, after a
\* second row was stored.
C12_Witness ==
    /\ Len(store) = 2
    /\ \E r \in Requests : \E k \in 1..Len(req[r].results) :
          req[r].results[k].result = Multiple(<<store[1]>>)

\* The arm call k of request r takes.
ArmOf(r, k) == Arm(tool_calls(r)[k].name, tool_calls(r)[k].arguments)

\* C13: while the loop of a request is at call i, exactly the calls before i
\* have their results (no call is started before the one before it is done), and
\* a GetUserReminders right after a StoreUserReminder of the same request lists
\* the Reminder that call was answered with, when no other request deletes.
C13_OneCallAtATime ==
    \A r \in Requests :
        req[r].pc \in {"loop", "ask"} \cup StoreArms => Len(req[r].results) = req[r].i - 1

C13_VisibleStep ==
    \A r \in Requests :
        (/\ req[r].pc = "list"
         /\ req'[r].pc = "loop"
         /\ req[r].i > 1
         /\ req[r].results[req[r].i - 1].result.kind = "Single"
         /\ \A q \in Requests \ {r} : \A k \in 1..Len(req[q].body) : ArmOf(q, k) # "delete") =>
            req[r].results[req[r].i - 1].result.reminder
                \in Range(Last(req'[r].results).result.reminders)

C13_SequentialVisible == []C13_OneCallAtATime /\ [][C13_VisibleStep]_vars

\* C14: without the credential nothing is ever sent, no call of the
\* AskPerplexity arm ever has a result, no request with such a call is answered
\* with an envelope, and the one step a request can take at such a call is the
\* panic of its task.
C14_NothingForwarded ==
    ~apiKey =>
        /\ outbound = 0
        /\ \A r \in Requests :
              /\ req[r].pc # "ask"
              /\ \A k \in 1..Len(req[r].body) :
                    ArmOf(r, k) = "ask" => ~HasResult(r, k) /\ ~Answered(r)

C14_PanicStep ==
    \A r \in Requests :
        (~apiKey /\ AtCall(r) /\ CurrentArm(r) = "ask" /\ req'[r] # req[r]) =>
            /\ req'[r].pc = "panicked"
            /\ req'[r].response = NoResponse
            /\ outbound' = outbound

C14_MissingKeyFailsLoudly == []C14_NothingForwarded /\ [][C14_PanicStep]_vars

\* Without the credential, a request stored a reminder with its first call and
\* panicked at its second, the AskPerplexity call.
C14_Witness ==
    /\ ~apiKey
    /\ \E r \in Requests :
          /\ req[r].pc = "panicked"
          /\ req[r].i = 2
          /\ ArmOf(r, 1) = "create"
          /\ ArmOf(r, 2) = "ask"
          /\ outbound = 0

\* The scheduling of the runtime: a handler task that can take a step
\* eventually takes one (and an outbound call eventually returns).
Fairness == \A r \in Requests : WF_vars(Handle(r))

\* The requests of the fair specification: batches of delete-all and
\* forwarding calls, and one request of one call for each other arm.
FairCalls == {DeleteCall("a"), AskCall("a", "m1")}

FairBatches ==
    BatchesOver(FairCalls)
    \cup {<<ListCall("a")>>, <<CreateCall("a", "m1", "t1")>>, <<OtherCall("b")>>,
          <<UndecodableCall("b")>>}

NextFair ==
    \E r \in Requests : Receive(r, FairBatches) \/ Reject(r, FairBatches) \/ Handle(r)

SpecFair == Init /\ [][NextFair]_vars /\ Fairness

\* C15 as stated: every request received eventually returns an envelope or an
\* error, and a locked mutex is eventually unlocked.
C15_EveryRequestReturns ==
    /\ \A r \in Requests : (req[r].pc # "idle") ~> (req[r].pc = "done")
    /\ (mutex # Unlocked) ~> (mutex = Unlocked)

\* C15, amended: every request received eventually returns an envelope or an
\* error or, at an AskPerplexity call without the credential, its task panics;
\* and a locked mutex is eventually unlocked.
C15_EveryRequestEnds ==
    /\ \A r \in Requests : (req[r].pc # "idle") ~> (req[r].pc \in {"done", "panicked"})
    /\ (mutex # Unlocked) ~> (mutex = Unlocked)

\* Both requests have ended after each ran two store functions, so each took
\* the mutex twice while the other was being handled.
C15_Witness ==
    /\ mutex = Unlocked
    /\ \A r \in Requests :
          /\ Answered(r)
          /\ Len(req[r].body) = 2
          /\ \A k \in 1..2 : ArmOf(r, k) \in StoreArms

\* C16: a request that is not inside a store function does not hold the
\* mutex (not while it awaits the answer, not between two calls, not after it
\* has ended); a request at a call of a store arm can take the mutex whenever no
\* request is inside a store function, whoever is awaiting an answer; and the
\* step of a failed store function unlocks the mutex.
C16_LockOnlyInStore ==
    \A r \in Requests :
        /\ req[r].pc \notin StoreArms => mutex # r
        /\ (AtCall(r) /\ CurrentArm(r) \in StoreArms /\ InStore = {}) => ENABLED LockConnection(r)

C16_FailureStep ==
    \A r \in Requests :
        (req[r].pc \in StoreArms /\ req'[r].pc = "done") =>
            /\ req'[r].response.status = INTERNAL_SERVER_ERROR
            /\ mutex' = Unlocked

C16_LockScope == []C16_LockOnlyInStore /\ [][C16_FailureStep]_vars

\* One request awaits the external answer while the other holds the mutex
\* inside create_reminder.
C16_Witness ==
    \E r, q \in Requests :
        /\ req[r].pc = "ask"
        /\ req[q].pc = "create"
        /\ mutex = q

\* Request r returns an error or panics in this step.
Aborts(r) ==
    /\ req[r].pc \notin {"idle", "done", "panicked"}
    /\ \/ req'[r].pc = "panicked"
       \/ req'[r].pc = "done" /\ req'[r].response.status # 200

\* C17: the step in which a request aborts leaves the table as it is and
\* returns no result, whatever its earlier calls stored or deleted; and every
\* step that changes the table is one store function of one request.
C17_AbortStep ==
    \A r \in Requests :
        Aborts(r) =>
            /\ store' = store
            /\ req'[r].results = << >>
            /\ IF req'[r].pc = "panicked"
               THEN req'[r].response = NoResponse
               ELSE req'[r].response =
                        ErrResponse(INTERNAL_SERVER_ERROR, ErrorToString(req'[r].failed))

C17_AtomicStep ==
    store' # store =>
        \E r \in Requests :
            /\ req[r].pc \in {"create", "delete"}
            /\ req'[r].i = req[r].i + 1
            /\ \A q \in Requests \ {r} : req'[q] = req[q]

C17_NoRollback == [][C17_AbortStep /\ C17_AtomicStep]_vars

\* A request stored a reminder with its first call and failed at its second:
\* it was answered with the error, and the row is in the table; the other request
\* has not arrived.
C17_Witness ==
    \E r, q \in Requests :
        /\ r # q
        /\ req[q].pc = "idle"
        /\ req[r].pc = "done"
        /\ req[r].response.status = INTERNAL_SERVER_ERROR
        /\ req[r].i = 2
        /\ ArmOf(r, 1) = "create"
        /\ Len(store) = 1
        /\ store[1].message = tool_calls(r)[1].arguments.message

====
